---- MODULE Spec2Model ----
(***************************************************************************)
(* Model of the hypothesis-testing engine of the insurance risk analytics  *)
(* repository: ABTester (metric derivation, multi-group and pairwise       *)
(* tests, run_all), interpret_result, AnalysisPipeline._interpret_ab_      *)
(* results / run_pipeline and BusinessReporter.generate_markdown.          *)
(*                                                                         *)
(* A DataFrame is a set of column names and a sequence of run-length       *)
(* blocks [row, n]: n consecutive rows that carry the same values.  A row  *)
(* is a function from the column names to values.  Floating-point values   *)
(* are records [k, v]: k = "num" for the finite number v, "nan", "inf",    *)
(* "ninf", "fin" for a finite number whose value the model does not        *)
(* compute, and "none" for Python's None.  p-values are counted in         *)
(* thousandths, so 0.05 is 50.                                             *)
(***************************************************************************)
EXTENDS Integers, Sequences, FiniteSets, TLC

\* ------------------------------------------------------------------ values

Num(x)  == [k |-> "num", v |-> x]
NaN     == [k |-> "nan", v |-> 0]
PosInf  == [k |-> "inf", v |-> 0]
NegInf  == [k |-> "ninf", v |-> 0]
Finite  == [k |-> "fin", v |-> 0]
None    == [k |-> "none", v |-> 0]

\* A missing value of a text column (pandas NaN in an object column).
NullLabel == "<null>"

IsNull(x) == x = NaN

\* ------------------------------------------------------------------ bounds

\* Largest number of run-length blocks of an input dataset.
MaxBlocks == 3

\* --------------------------------------------------------- program constants

\* ABTester.py:36 and :44, "len(g) < 20".
MinGroupSize == 20
\* ABTester.py:82, "len(x) > 5 and len(y) > 5".
MinBalanceSize == 5
\* ABTester.py:116, interpret_result(..., alpha=0.05), in thousandths.
DefaultAlpha == 50
\* analysis_pipeline.py:21, _interpret_ab_results(..., alpha=0.05).
PipelineAlpha == 50
\* business_reporter.py:31, "p < 0.05".
ReporterAlpha == 50

\* ------------------------------------------------------------------ helpers

RECURSIVE SumOver(_, _)
\* Sum of f[i] for i in the finite set S of integers.
SumOver(f, S) ==
    IF S = {} THEN 0
    ELSE LET i == CHOOSE j \in S : TRUE
         IN  f[i] + SumOver(f, S \ {i})

\* Number of rows of dataset d in the blocks with index in I.
CountRows(d, I) == SumOver([i \in 1..Len(d.blocks) |-> d.blocks[i].n], I)

\* The indexes of the blocks of d whose attribute col is label.
WithLabel(d, col, label) == {i \in 1..Len(d.blocks) : d.blocks[i].row[col] = label}

NRows(d) == CountRows(d, 1..Len(d.blocks))

\* A sample: the sequence of [v, n] blocks of float values handed to scipy.
SampleSize(s) == SumOver([i \in 1..Len(s) |-> s[i].n], 1..Len(s))
SampleSum(s)  == SumOver([i \in 1..Len(s) |-> s[i].v.v * s[i].n], 1..Len(s))
SampleConst(s) == \A i, j \in 1..Len(s) : s[i].v = s[j].v

\* Series.mean(): NaN for an empty series, else the exact fraction sum/n.
Mean(s) ==
    IF SampleSize(s) = 0 THEN [k |-> "nan", num |-> 0, den |-> 1]
    ELSE [k |-> "num", num |-> SampleSum(s), den |-> SampleSize(s)]

MeansEqual(s, t) == SampleSum(s) * SampleSize(t) = SampleSum(t) * SampleSize(s)

\* ------------------------------------------------------- metric derivation

DerivedCols == {"HadClaim", "ClaimCount", "AvgClaimSeverity", "Margin"}

\* DeriveRow with the severity of a record without claims zero-filled.
DeriveRowZeroFill(r, cols) ==
    LET hadClaim   == IF r["TotalClaims"] > 0 THEN 1 ELSE 0
        claimCount == IF "ClaimCount" \in cols THEN r["ClaimCount"] ELSE hadClaim
        severity   == IF claimCount > 0
                      THEN Num(r["TotalClaims"] \div claimCount)
                      ELSE Num(0)
        margin     == r["TotalPremium"] - r["TotalClaims"]
    IN  [c \in cols \cup DerivedCols |->
            CASE c = "HadClaim"         -> hadClaim
              [] c = "ClaimCount"       -> claimCount
              [] c = "AvgClaimSeverity" -> severity
              [] c = "Margin"           -> margin
              [] OTHER                  -> r[c]]

\* DeriveRow with the claim flag added to a claim count already present.
DeriveRowAccumulate(r, cols) ==
    LET hadClaim   == IF r["TotalClaims"] > 0 THEN 1 ELSE 0
        claimCount == IF "ClaimCount" \in cols THEN r["ClaimCount"] + hadClaim
                      ELSE hadClaim
        severity   == IF claimCount > 0
                      THEN Num(r["TotalClaims"] \div claimCount)
                      ELSE NaN
        margin     == r["TotalPremium"] - r["TotalClaims"]
    IN  [c \in cols \cup DerivedCols |->
            CASE c = "HadClaim"         -> hadClaim
              [] c = "ClaimCount"       -> claimCount
              [] c = "AvgClaimSeverity" -> severity
              [] c = "Margin"           -> margin
              [] OTHER                  -> r[c]]

\* ABTester.__init__ on one row r of a frame with columns cols.  The amounts
\* of the input family are multiples of every claim count it uses, so the
\* float quotient TotalClaims / ClaimCount is the exact integer quotient.
DeriveRow(r, cols) ==
    LET hadClaim   == IF r["TotalClaims"] > 0 THEN 1 ELSE 0
        claimCount == IF "ClaimCount" \in cols THEN r["ClaimCount"] ELSE hadClaim
        severity   == IF claimCount > 0
                      THEN Num(r["TotalClaims"] \div claimCount)
                      ELSE NaN
        margin     == r["TotalPremium"] - r["TotalClaims"]
    IN  [c \in cols \cup DerivedCols |->
            CASE c = "HadClaim"         -> hadClaim
              [] c = "ClaimCount"       -> claimCount
              [] c = "AvgClaimSeverity" -> severity
              [] c = "Margin"           -> margin
              [] OTHER                  -> r[c]]

\* ABTester.__init__: the enriched copy of frame d.
Derive(d) ==
    [cols   |-> d.cols \cup DerivedCols,
     blocks |-> [i \in 1..Len(d.blocks) |->
                    [row |-> DeriveRow(d.blocks[i].row, d.cols),
                     n   |-> d.blocks[i].n]]]

RequiredCols == {"TotalClaims", "TotalPremium"}

\* ----------------------------------------------------------- frame queries

\* Columns whose values are floats ([k, v] records); the others hold
\* integers or text.
FloatCols == {"AvgClaimSeverity", "CustomValueEstimate"}

AsFloat(r, c) == IF c \in FloatCols THEN r[c] ELSE Num(r[c])

\* The distinct non-null values of text column col: the keys of
\* df.groupby(col) and the row labels of pd.crosstab(df[col], ...), both of
\* which drop rows whose key is missing.
Labels(d, col) ==
    {d.blocks[i].row[col] : i \in 1..Len(d.blocks)} \ {NullLabel}

\* df[df[col] == label][metric] as a sample (nulls still in it).
Select(d, col, label, metric) ==
    LET Keep(b) == b.row[col] = label
        kept    == SelectSeq(d.blocks, Keep)
    IN  [i \in 1..Len(kept) |-> [v |-> AsFloat(kept[i].row, metric), n |-> kept[i].n]]

\* Series.dropna().
DropNa(s) ==
    LET Keep(b) == ~IsNull(b.v)
    IN  SelectSeq(s, Keep)

\* The sizes of the samples of a call, by label.
Sizes(g) == [l \in DOMAIN g |-> SampleSize(g[l])]

\* -------------------------------------------------------------- scipy.stats

\* Finite p-values scipy may return where the model does not compute them:
\* one below, one equal to and one above the 0.05 threshold.
PFinite == {Num(10), Num(50), Num(500)}

LibOk(stat, p) == [raised |-> "", stat |-> stat, p |-> p]
LibRaise(e)    == [raised |-> e, stat |-> None, p |-> None]

\* Every observation of every sample of g is the same number.
AllIdentical(g) ==
    \A l1, l2 \in DOMAIN g :
        \A i \in 1..Len(g[l1]) : \A j \in 1..Len(g[l2]) : g[l1][i].v = g[l2][j].v

\* stats.kruskal(*groups): fewer than two samples raise, an empty sample
\* gives (nan, nan), all observations identical raise, else a finite result.
Kruskal(g) ==
    IF Cardinality(DOMAIN g) < 2 THEN {LibRaise("ValueError")}
    ELSE IF \E l \in DOMAIN g : SampleSize(g[l]) = 0 THEN {LibOk(NaN, NaN)}
    ELSE IF AllIdentical(g) THEN {LibRaise("ValueError")}
    ELSE {LibOk(Finite, p) : p \in PFinite}

\* stats.f_oneway(*groups): fewer than two samples raise, an empty sample
\* gives (nan, nan); when every sample is constant the result is (nan, nan)
\* if they all hold the same constant and (inf, 0.0) otherwise.
FOneway(g) ==
    IF Cardinality(DOMAIN g) < 2 THEN {LibRaise("TypeError")}
    ELSE IF \E l \in DOMAIN g : SampleSize(g[l]) = 0 THEN {LibOk(NaN, NaN)}
    ELSE IF \A l \in DOMAIN g : SampleConst(g[l])
         THEN IF AllIdentical(g) THEN {LibOk(NaN, NaN)}
              ELSE {LibOk(PosInf, Num(0))}
    ELSE {LibOk(Finite, p) : p \in PFinite}

\* stats.ttest_ind(a, b, equal_var=False): Welch's test.  A sample of fewer
\* than two observations has no variance and gives (nan, nan); two samples of
\* zero variance give t = +-inf, p = 0.0 when the means differ and (nan, nan)
\* when they are equal.
TTestInd(a, b) ==
    IF SampleSize(a) < 2 \/ SampleSize(b) < 2 THEN {LibOk(NaN, NaN)}
    ELSE IF SampleConst(a) /\ SampleConst(b)
         THEN IF MeansEqual(a, b) THEN {LibOk(NaN, NaN)}
              ELSE IF SampleSum(a) * SampleSize(b) > SampleSum(b) * SampleSize(a)
                   THEN {LibOk(PosInf, Num(0))}
                   ELSE {LibOk(NegInf, Num(0))}
    ELSE {LibOk(Finite, p) : p \in PFinite}

\* stats.chi2_contingency(ct): an empty table raises; a table of one row or
\* one column has dof 0 and gives chi2 = 0.0, p = 1.0.
TableDof(ct) ==
    LET R == Cardinality(DOMAIN ct)
        C == IF R = 0 THEN 0
             ELSE Cardinality(DOMAIN ct[CHOOSE l \in DOMAIN ct : TRUE])
    IN  (R - 1) * (C - 1)

Chi2Contingency(ct) ==
    IF DOMAIN ct = {} THEN {LibRaise("ValueError")}
    ELSE IF TableDof(ct) = 0 THEN {LibOk(Num(0), Num(1000))}
    ELSE {LibOk(Finite, p) : p \in PFinite}

\* ------------------------------------------------------------ test results

\* What an operation did: the exception it raised ("" if none), the result
\* it returned, and the scipy call it made with the sizes of the samples.
NoSizes == [l \in {} |-> 0]
NoCall  == [fn |-> "", sizes |-> NoSizes]
Returned(r, call) == [raised |-> "", value |-> r, call |-> call]
Raised(e, call)   == [raised |-> e, value |-> [error |-> e], call |-> call]

\* Crosstab built from the records with a claim only.
CrosstabClaimsOnly(d, col) ==
    LET L == Labels(d, col)
        H == {d.blocks[i].row["HadClaim"] :
                i \in {j \in 1..Len(d.blocks) : d.blocks[j].row[col] # NullLabel}}
    IN  [l \in L |-> [h \in H |->
            CountRows(d, {i \in WithLabel(d, col, l) :
                            /\ d.blocks[i].row["HadClaim"] = h
                            /\ d.blocks[i].row["TotalClaims"] > 0})]]

\* pd.crosstab(df[col], df['HadClaim']): counts by label and claim flag, over
\* the rows whose label is not missing.
Crosstab(d, col) ==
    LET L == Labels(d, col)
        H == {d.blocks[i].row["HadClaim"] :
                i \in {j \in 1..Len(d.blocks) : d.blocks[j].row[col] # NullLabel}}
    IN  [l \in L |-> [h \in H |->
            CountRows(d, {i \in WithLabel(d, col, l) : d.blocks[i].row["HadClaim"] = h})]]

RowSums(ct) ==
    [l \in DOMAIN ct |-> SumOver(ct[l], DOMAIN ct[l])]

\* ABTester.chi2_frequency_by_group
chi2_frequency_by_group(d, col) ==
    IF col \notin d.cols THEN {Raised("KeyError", NoCall)}
    ELSE LET ct   == Crosstab(d, col)
             call == [fn |-> "chi2_contingency", sizes |-> RowSums(ct)]
         IN  {IF o.raised # "" THEN Raised(o.raised, call)
              ELSE Returned([group |-> col, test |-> "chi2_frequency", chi2 |-> o.stat,
                             dof |-> TableDof(ct), p_value |-> o.p, table |-> ct], call)
              : o \in Chi2Contingency(ct)}

\* GroupTest with the size comparison off by one (len(g) <= 20).
GroupTestOffByOne(col, g, metric) ==
    IF \E l \in DOMAIN g : SampleSize(g[l]) <= MinGroupSize
    THEN {IF o.raised # "" THEN Raised(o.raised, [fn |-> "kruskal", sizes |-> Sizes(g)])
          ELSE Returned([group |-> col, test |-> "kruskal_" \o metric, stat |-> o.stat,
                         p_value |-> o.p], [fn |-> "kruskal", sizes |-> Sizes(g)])
          : o \in Kruskal(g)}
    ELSE {IF o.raised # "" THEN Raised(o.raised, [fn |-> "f_oneway", sizes |-> Sizes(g)])
          ELSE Returned([group |-> col, test |-> "anova_" \o metric, F |-> o.stat,
                         p_value |-> o.p], [fn |-> "f_oneway", sizes |-> Sizes(g)])
          : o \in FOneway(g)}

\* The multi-group comparison shared by the severity and margin tests: the
\* rank-based test when any group is smaller than MinGroupSize, else ANOVA.
GroupTest(col, g, metric) ==
    IF \E l \in DOMAIN g : SampleSize(g[l]) < MinGroupSize
    THEN {IF o.raised # "" THEN Raised(o.raised, [fn |-> "kruskal", sizes |-> Sizes(g)])
          ELSE Returned([group |-> col, test |-> "kruskal_" \o metric, stat |-> o.stat,
                         p_value |-> o.p], [fn |-> "kruskal", sizes |-> Sizes(g)])
          : o \in Kruskal(g)}
    ELSE {IF o.raised # "" THEN Raised(o.raised, [fn |-> "f_oneway", sizes |-> Sizes(g)])
          ELSE Returned([group |-> col, test |-> "anova_" \o metric, F |-> o.stat,
                         p_value |-> o.p], [fn |-> "f_oneway", sizes |-> Sizes(g)])
          : o \in FOneway(g)}

\* ABTester.anova_severity_by_group
anova_severity_by_group(d, col) ==
    IF col \notin d.cols THEN {Raised("KeyError", NoCall)}
    ELSE LET groups == [l \in Labels(d, col) |->
                            DropNa(Select(d, col, l, "AvgClaimSeverity"))]
         IN  GroupTest(col, groups, "severity")

\* ABTester.anova_margin_by_group
anova_margin_by_group(d, col) ==
    IF col \notin d.cols THEN {Raised("KeyError", NoCall)}
    ELSE LET groups == [l \in Labels(d, col) |-> Select(d, col, l, "Margin")]
         IN  GroupTest(col, groups, "margin")

\* ABTester.ttest_metric_between_groups
ttest_metric_between_groups(d, col, metric, a, b) ==
    IF col \notin d.cols \/ metric \notin d.cols THEN {Raised("KeyError", NoCall)}
    ELSE LET a_vals == DropNa(Select(d, col, a, metric))
             b_vals == DropNa(Select(d, col, b, metric))
             call   == [fn |-> "ttest_ind",
                        sizes |-> [l \in {"A", "B"} |->
                                     IF l = "A" THEN SampleSize(a_vals)
                                     ELSE SampleSize(b_vals)]]
         IN  {Returned([group |-> col, metric |-> metric, A |-> a, B |-> b,
                        mean_A |-> Mean(a_vals), mean_B |-> Mean(b_vals),
                        t_stat |-> o.stat, p_value |-> o.p], call)
              : o \in TTestInd(a_vals, b_vals)}

\* A z statistic taken from the absolute difference of the rates.
SignOfAbs(x) == IF x # 0 THEN 1 ELSE 0

\* The sign of integer x.
Sign(x) == IF x > 0 THEN 1 ELSE IF x < 0 THEN -1 ELSE 0

\* num/den > w + m/1000 + u/1000000 for den > 0, 0 <= m, u < 1000, without
\* a product past 32 bits.
ExceedsMicro(num, den, w, m, u) ==
    LET q  == num \div den
        r  == num % den
        t  == (r * 1000) \div den
        r2 == (r * 1000) % den
    IN  \/ q > w
        \/ q = w /\ t > m
        \/ q = w /\ t = m /\ r2 * 1000 > u * den

\* 2 * (1 - stats.norm.cdf(abs(z))) for z # nan, from z squared = num/den.
\* z = 0 gives exactly 1.0.  Otherwise the model reports the p-value by the
\* side of the 0.05 threshold it falls on: p < 0.05 exactly when
\* z^2 > 3.841459 (reported as 0.010), else 0.500; past |z| = 8.3
\* (z^2 > 68.89) the float 1 - cdf is 0.0.
TwoSidedNormal(num, den) ==
    IF num = 0 THEN Num(1000)
    ELSE IF ExceedsMicro(num, den, 68, 890, 0) THEN Num(0)
    ELSE IF ExceedsMicro(num, den, 3, 841, 459) THEN Num(10)
    ELSE Num(500)

\* ABTester.ztest_proportions.  Python's int / int raises ZeroDivisionError
\* on a zero total (lines 65-66); a zero standard error divides the float
\* 0.0 by numpy's 0.0, which is nan without an exception (line 67).
ztest_proportions(d, col, a, b) ==
    IF col \notin d.cols THEN {Raised("KeyError", NoCall)}
    ELSE LET Claimed(I) == {i \in I : d.blocks[i].row["HadClaim"] = 1}
             a_succ  == CountRows(d, Claimed(WithLabel(d, col, a)))
             a_total == CountRows(d, WithLabel(d, col, a))
             b_succ  == CountRows(d, Claimed(WithLabel(d, col, b)))
             b_total == CountRows(d, WithLabel(d, col, b))
             S       == a_succ + b_succ
             N       == a_total + b_total
             D       == a_succ * b_total - b_succ * a_total
             zero_se == S = 0 \/ S = N
             z       == IF zero_se THEN [k |-> "nan", sign |-> 0, num |-> 0, den |-> 1]
                        ELSE [k |-> "num", sign |-> Sign(D), num |-> D * D * N,
                              den |-> a_total * b_total * S * (N - S)]
             p       == IF zero_se THEN NaN ELSE TwoSidedNormal(z.num, z.den)
             call    == [fn |-> "norm.cdf",
                         sizes |-> [l \in {"A", "B"} |->
                                      IF l = "A" THEN a_total ELSE b_total]]
         IN  IF N = 0 \/ a_total = 0 \/ b_total = 0
             THEN {Raised("ZeroDivisionError", NoCall)}
             ELSE {Returned([group |-> col, metric |-> "HadClaim", A |-> a, B |-> b,
                             rate_A |-> [num |-> a_succ, den |-> a_total],
                             rate_B |-> [num |-> b_succ, den |-> b_total],
                             z_score |-> z, p_value |-> p], call)}

\* ------------------------------------------------------------ balance check

\* The covariates balance_check compares when the caller names none
\* (ABTester.py lines 75-76).
DefaultCovariatesNum == <<"CustomValueEstimate", "SumInsured", "TotalPremium">>
DefaultCovariatesCat == <<"CoverCategory", "Bodytype", "LegalType">>

\* "covariates or [...]": None and the empty list both select the defaults.
OrDefault(covariates, default) == IF covariates = << >> THEN default ELSE covariates

\* A section of the report with no entry yet.
NoEntries == [key \in {} |-> 0]

\* report[section][key] = entry
Put(f, key, entry) ==
    [k \in DOMAIN f \cup {key} |-> IF k = key THEN entry ELSE f[k]]

\* The size test with 5 observations on a side accepted (len >= 5).
EnoughObservationsFrom5(x, y) ==
    SampleSize(x) >= MinBalanceSize /\ SampleSize(y) >= MinBalanceSize

\* "len(x) > 5 and len(y) > 5", ABTester.py line 82.
EnoughObservations(x, y) ==
    SampleSize(x) > MinBalanceSize /\ SampleSize(y) > MinBalanceSize

\* The first loop of balance_check over covs, in order: the entries written
\* to report["numeric"], or the KeyError of the first covariate that is not
\* a column.  A covariate with 5 or fewer non-null values on either side
\* writes nothing.
RECURSIVE BalanceNumeric(_, _, _, _, _)
BalanceNumeric(d, col, a, b, covs) ==
    IF covs = << >> THEN {[raised |-> "", entries |-> NoEntries]}
    ELSE LET c == covs[Len(covs)]
             x == DropNa(Select(d, col, a, c))
             y == DropNa(Select(d, col, b, c))
         IN  UNION {
               IF r.raised # "" THEN {r}
               ELSE IF c \notin d.cols THEN {[raised |-> "KeyError", entries |-> r.entries]}
               ELSE IF EnoughObservations(x, y)
                    THEN {[raised  |-> "",
                           entries |-> Put(r.entries, c,
                                           [mean_A |-> Mean(x), mean_B |-> Mean(y),
                                            t_stat |-> o.stat, p_value |-> o.p])]
                          : o \in TTestInd(x, y)}
               ELSE {r}
               : r \in BalanceNumeric(d, col, a, b, SubSeq(covs, 1, Len(covs) - 1))}

\* The cross-tabulation that pairs every value of group A with every value
\* of group B, whatever rows they come from.
BalanceCrosstabUnaligned(d, col, a, b, c) ==
    LET A == {i \in WithLabel(d, col, a) : d.blocks[i].row[c] # NullLabel}
        B == {i \in WithLabel(d, col, b) : d.blocks[i].row[c] # NullLabel}
    IN  IF A = {} \/ B = {} THEN NoEntries
        ELSE [u \in {d.blocks[i].row[c] : i \in A} |->
                [v \in {d.blocks[i].row[c] : i \in B} |->
                    CountRows(d, {i \in A : d.blocks[i].row[c] = u})
                    * CountRows(d, {i \in B : d.blocks[i].row[c] = v})]]

\* pd.crosstab(a_df[c], b_df[c]): the two series are aligned on the row
\* labels they share, so a value of group A meets a value of group B only in
\* a row that is in both selections; rows with a missing value are dropped.
BalanceCrosstab(d, col, a, b, c) ==
    LET I == {i \in WithLabel(d, col, a) \cap WithLabel(d, col, b) :
                d.blocks[i].row[c] # NullLabel}
        V == {d.blocks[i].row[c] : i \in I}
    IN  [u \in V |-> [v \in V |->
            IF u = v THEN CountRows(d, {i \in I : d.blocks[i].row[c] = u}) ELSE 0]]

\* The second loop of balance_check over covs: the entries written to
\* report["categorical"], one per covariate whose table is not empty
\* (ct.size > 0).
RECURSIVE BalanceCategorical(_, _, _, _, _)
BalanceCategorical(d, col, a, b, covs) ==
    IF covs = << >> THEN {[raised |-> "", entries |-> NoEntries]}
    ELSE LET c  == covs[Len(covs)]
             ct == BalanceCrosstab(d, col, a, b, c)
         IN  UNION {
               IF r.raised # "" THEN {r}
               ELSE IF c \notin d.cols THEN {[raised |-> "KeyError", entries |-> r.entries]}
               ELSE IF DOMAIN ct # {}
                    THEN {IF o.raised # "" THEN [raised |-> o.raised, entries |-> r.entries]
                          ELSE [raised  |-> "",
                                entries |-> Put(r.entries, c,
                                                [chi2 |-> o.stat, p_value |-> o.p])]
                          : o \in Chi2Contingency(ct)}
               ELSE {r}
               : r \in BalanceCategorical(d, col, a, b, SubSeq(covs, 1, Len(covs) - 1))}

\* The two loops of balance_check (lines 80-90) and its return: the report
\* is returned only if neither loop raised.
BalanceReport(d, col, a, b, covs_num, covs_cat) ==
    UNION {
      IF n.raised # "" THEN {Raised(n.raised, NoCall)}
      ELSE {IF c.raised # "" THEN Raised(c.raised, NoCall)
            ELSE Returned([numeric |-> n.entries, categorical |-> c.entries], NoCall)
            : c \in BalanceCategorical(d, col, a, b, covs_cat)}
      : n \in BalanceNumeric(d, col, a, b, covs_num)}

\* balance_check that refuses a pair of labels selecting no rows.
balance_checkRefusingEmpty(d, col, a, b, covariates_num, covariates_cat) ==
    IF col \notin d.cols THEN {Raised("KeyError", NoCall)}
    ELSE IF WithLabel(d, col, a) \cup WithLabel(d, col, b) = {}
    THEN {Raised("ValueError", NoCall)}
    ELSE BalanceReport(d, col, a, b,
                       OrDefault(covariates_num, DefaultCovariatesNum),
                       OrDefault(covariates_cat, DefaultCovariatesCat))

\* ABTester.balance_check: a missing attribute raises at line 77, before
\* the loops.
balance_check(d, col, a, b, covariates_num, covariates_cat) ==
    IF col \notin d.cols THEN {Raised("KeyError", NoCall)}
    ELSE BalanceReport(d, col, a, b,
                       OrDefault(covariates_num, DefaultCovariatesNum),
                       OrDefault(covariates_cat, DefaultCovariatesCat))

\* ----------------------------------------------------------- interpretation

\* Python's float comparison p < alpha: False for nan.
Lt(p, alpha) == p.k = "num" /\ p.v < alpha

\* Python's truth value of a float or None: False for None and for 0.0.
Truthy(p) == ~(p = None \/ p = Num(0))

\* dict.get("p_value", None)
GetP(res) == IF "p_value" \in DOMAIN res THEN res.p_value ELSE None

Get(res, key, default) == IF key \in DOMAIN res THEN res[key] ELSE default

\* interpret_result(test_name, res, alpha) of ABTester.py: it never raises.
interpret_result(test_name, res, alpha) ==
    LET p        == GetP(res)
        decision == IF p # None /\ Lt(p, alpha) THEN "Reject H0"
                    ELSE "Fail to reject H0"
    IN  [raised |-> "",
         value  |-> [test |-> test_name, p_value |-> p, decision |-> decision]]

\* One pass of the loop of AnalysisPipeline._interpret_ab_results: the
\* decision it prints for a result, or the warning for a missing p-value.
PipelineDecision(res, alpha) ==
    LET p_value == GetP(res)
    IN  IF p_value # None
        THEN (IF Lt(p_value, alpha) THEN "Reject H0" ELSE "Fail to Reject H0")
        ELSE "Warning: P-value not found"

_interpret_ab_results(rs, alpha) ==
    [key \in DOMAIN rs |-> PipelineDecision(rs[key], alpha)]

\* BusinessReporter.interpret
ReporterInterpret(test_name, decision) ==
    IF decision = "Reject H0"
    THEN CASE test_name \in {"province_freq", "province_severity"} ->
                "Regional risk differences detected. Adjust premiums by province."
           [] test_name \in {"zip_freq", "zip_severity", "zip_margin"} ->
                "Zip-level differences found. Consider micro-rating or fraud checks."
           [] test_name \in {"gender_severity", "gender_freq"} ->
                "Gender differences detected, but use with caution due to compliance."
           [] OTHER -> "No significant differences detected."
    ELSE "No significant differences detected."

\* The decision of one row of BusinessReporter.generate_markdown:
\* "Reject" if p and p < 0.05.
ReporterDecision(res) ==
    LET p == GetP(res)
    IN  IF Truthy(p) /\ Lt(p, ReporterAlpha) THEN "Reject H0" ELSE "Fail to reject H0"

\* One row of the report table.
ReporterRow(test_name, res) ==
    [test_used |-> Get(res, "test", "N/A"), p |-> GetP(res),
     decision  |-> ReporterDecision(res),
     interp    |-> ReporterInterpret(test_name, ReporterDecision(res))]

\* BusinessReporter.generate_markdown over the results rs listed in order
\* keys: formatting a None p-value with ":.4f" raises TypeError and leaves the
\* rows written before it.
RECURSIVE MarkdownRows(_, _, _)
MarkdownRows(rs, keys, i) ==
    IF i > Len(keys) THEN [raised |-> "", rows |-> << >>]
    ELSE IF GetP(rs[keys[i]]) = None THEN [raised |-> "TypeError", rows |-> << >>]
    ELSE LET rest == MarkdownRows(rs, keys, i + 1)
         IN  [raised |-> rest.raised,
              rows   |-> <<[name |-> keys[i]] @@ ReporterRow(keys[i], rs[keys[i]])>>
                         \o rest.rows]

generate_markdown(rs, keys) == MarkdownRows(rs, keys, 1)

\* ------------------------------------------------------------------- state

VARIABLES
    src,       \* the caller's dataset, handed to ABTester(df)
    df,        \* ABTester.df, the enriched copy
    pc,        \* "new" before construction, then the position of the caller:
               \* "ready" to call, "returned" from a call, or a pipeline step
    res,       \* what the last test operation did (Returned / Raised)
    decision,  \* what the last interpret_result call did
    results,   \* run_all's local mapping, then run_pipeline's results
    printed,   \* the decisions printed by _interpret_ab_results
    report     \* what generate_markdown wrote

vars == <<src, df, pc, res, decision, results, printed, report>>

NoFrame    == [cols |-> {}, blocks |-> << >>]
NoOp       == [name |-> "", col |-> "", metric |-> "", a |-> "", b |-> ""]
NoOutcome  == [op |-> NoOp, raised |-> "", value |-> [error |-> ""], call |-> NoCall]
NoDecision == [raised |-> "", value |-> [test |-> "", p_value |-> None, decision |-> ""],
               alpha |-> 0]
NoResults  == [key \in {} |-> 0]
NoReport   == [raised |-> "", rows |-> << >>]

\* ------------------------------------------------------- the input datasets

Premiums   == {100}
Claims     == {0, 50, 100}
\* Block lengths: a single row, and the two sides of the group-size threshold.
BlockSizes == {1, MinGroupSize - 1, MinGroupSize}

Row(prov, zip, gender, premium, claims, count, cols) ==
    [c \in cols |->
        CASE c = "Province"                -> prov
          [] c \in {"PostalCode", "ZipCode"} -> zip
          [] c = "Gender"                  -> gender
          [] c = "TotalPremium"            -> premium
          [] c = "TotalClaims"             -> claims
          [] c = "ClaimCount"              -> count]

RECURSIVE SetToSeq(_)
SetToSeq(S) ==
    IF S = {} THEN << >>
    ELSE LET x == CHOOSE y \in S : TRUE
         IN  <<x>> \o SetToSeq(S \ {x})

\* The non-decreasing sequences of length k over the integers K.
RECURSIVE NonDecreasing(_, _)
NonDecreasing(k, K) ==
    IF k = 0 THEN {<< >>}
    ELSE UNION {{Append(f, j) : j \in {x \in K : k = 1 \/ f[k - 1] <= x}} :
                    f \in NonDecreasing(k - 1, K)}

\* The frames with columns cols of at most maxBlocks blocks, each of one of
\* the given rows and sizes.  No operation depends on the order of the rows,
\* so each multiset of blocks is listed in one order.
Frames(cols, rows, sizes, maxBlocks) ==
    {[cols |-> cols, blocks |-> [i \in DOMAIN idx |-> kinds[idx[i]]]] :
        kinds \in {SetToSeq([row : rows, n : sizes])},
        idx \in UNION {NonDecreasing(k, 1..(Cardinality(rows) * Cardinality(sizes))) :
                        k \in 0..maxBlocks}}

\* The datasets of the operation-level specification: one attribute,
\* Province, which may be missing in a row, without a source ClaimCount
\* column (EngineFrames) or with one (CountFrames).
EngineCols == {"Province", "TotalPremium", "TotalClaims"}

EngineFrames ==
    Frames(EngineCols,
           {Row(prov, "", "", premium, claims, 0, EngineCols) :
                prov \in {"X", "Y", NullLabel}, premium \in Premiums, claims \in Claims},
           BlockSizes, MaxBlocks)

CountFrames ==
    Frames(EngineCols \cup {"ClaimCount"},
           {Row(prov, "", "", premium, claims, count, EngineCols \cup {"ClaimCount"}) :
                prov \in {"X", "Y"}, premium \in Premiums, claims \in Claims,
                count \in {0, 1, 2}},
           {MinGroupSize}, MaxBlocks)

\* ----------------------------------------------------------------- actions

\* The derivation writing its columns into the caller's dataset (no copy).
ConstructInPlace ==
    /\ pc = "new"
    /\ RequiredCols \subseteq src.cols
    /\ src' = Derive(src)
    /\ df' = Derive(src)
    /\ pc' = "ready"
    /\ UNCHANGED <<res, decision, results, printed, report>>

\* tester = ABTester(src)
Construct ==
    /\ pc = "new"
    /\ RequiredCols \subseteq src.cols
    /\ df' = Derive(src)
    /\ pc' = "ready"
    /\ UNCHANGED <<src, res, decision, results, printed, report>>

\* The arguments the callers of the model pass: the attribute of the
\* datasets and a column no dataset has; labels the attribute takes (X, Y) and
\* labels no row carries (Z, W).
GroupCols  == {"Province", "Region"}
MetricCols == {"AvgClaimSeverity", "Margin"}
LabelPairs == {<<"X", "Y">>, <<"Y", "X">>, <<"X", "Z">>, <<"Z", "Y">>, <<"Z", "W">>}
TTestArgs  ==
    {<<"Province", m, ab[1], ab[2]>> : m \in MetricCols, ab \in LabelPairs}
    \cup {<<"Region", "Margin", "X", "Y">>, <<"Province", "Bonus", "X", "Y">>}
ZTestArgs  ==
    {<<"Province", ab[1], ab[2]>> : ab \in LabelPairs} \cup {<<"Region", "X", "Y">>}

\* The call made (name and arguments) beside each of its outcomes.
Called(name, col, metric, a, b, outs) ==
    {[op |-> [name |-> name, col |-> col, metric |-> metric, a |-> a, b |-> b],
      raised |-> o.raised, value |-> o.value, call |-> o.call] : o \in outs}

\* tester.chi2_frequency_by_group(col)
Chi2Frequency ==
    /\ pc = "ready"
    /\ \E col \in GroupCols :
          res' \in Called("chi2_frequency_by_group", col, "", "", "",
                          chi2_frequency_by_group(df, col))
    /\ pc' = "returned"
    /\ UNCHANGED <<src, df, decision, results, printed, report>>

\* tester.anova_severity_by_group(col)
AnovaSeverity ==
    /\ pc = "ready"
    /\ \E col \in GroupCols :
          res' \in Called("anova_severity_by_group", col, "AvgClaimSeverity", "", "",
                          anova_severity_by_group(df, col))
    /\ pc' = "returned"
    /\ UNCHANGED <<src, df, decision, results, printed, report>>

\* tester.anova_margin_by_group(col)
AnovaMargin ==
    /\ pc = "ready"
    /\ \E col \in GroupCols :
          res' \in Called("anova_margin_by_group", col, "Margin", "", "",
                          anova_margin_by_group(df, col))
    /\ pc' = "returned"
    /\ UNCHANGED <<src, df, decision, results, printed, report>>

\* tester.ttest_metric_between_groups(col, metric, a, b)
TTest ==
    /\ pc = "ready"
    /\ \E t \in TTestArgs :
          res' \in Called("ttest_metric_between_groups", t[1], t[2], t[3], t[4],
                          ttest_metric_between_groups(df, t[1], t[2], t[3], t[4]))
    /\ pc' = "returned"
    /\ UNCHANGED <<src, df, decision, results, printed, report>>

\* tester.ztest_proportions(col, a, b)
ZTest ==
    /\ pc = "ready"
    /\ \E t \in ZTestArgs :
          res' \in Called("ztest_proportions", t[1], "HadClaim", t[2], t[3],
                          ztest_proportions(df, t[1], t[2], t[3]))
    /\ pc' = "returned"
    /\ UNCHANGED <<src, df, decision, results, printed, report>>

\* ABTester(tester.df): a second tester built from the enriched dataset of
\* the first; the result is the enriched dataset of the second.
ConstructAgain ==
    /\ pc = "ready"
    /\ RequiredCols \subseteq df.cols
    /\ res' \in Called("ABTester", "", "", "", "",
                       {Returned([df |-> Derive(df)], NoCall)})
    /\ pc' = "returned"
    /\ UNCHANGED <<src, df, decision, results, printed, report>>

\* The caller is done with the result and free to make its next call.
DropResult ==
    /\ pc = "returned"
    /\ pc' = "ready"
    /\ res' = NoOutcome
    /\ UNCHANGED <<src, df, decision, results, printed, report>>

Init ==
    /\ \/ src \in EngineFrames
       \/ src \in CountFrames
    /\ df = NoFrame
    /\ pc = "new"
    /\ res = NoOutcome
    /\ decision = NoDecision
    /\ results = NoResults
    /\ printed = NoResults
    /\ report = NoReport

Next ==
    \/ Construct
    \/ Chi2Frequency
    \/ AnovaSeverity
    \/ AnovaMargin
    \/ TTest
    \/ ZTest
    \/ ConstructAgain
    \/ DropResult

Spec == Init /\ [][Next]_vars

\* The construction and the multi-group tests alone.
NextGroup ==
    \/ Construct
    \/ Chi2Frequency
    \/ AnovaSeverity
    \/ AnovaMargin
    \/ ConstructAgain
    \/ DropResult

SpecGroup == Init /\ [][NextGroup]_vars

\* ------------------------------------------------------------ the pipeline

\* The datasets of the pipeline specification: Province, a postal-code
\* column (PostalCode, ZipCode or neither) and Gender, the attributes
\* run_all reads; run_all makes six calls per dataset, so these datasets are
\* one block shorter.
PipelineColSets ==
    LET base == {"TotalPremium", "TotalClaims"}
    IN  {base \cup {"Province", "PostalCode", "Gender"},
         base \cup {"Province", "ZipCode", "Gender"},
         base \cup {"Province", "Gender"},
         base \cup {"Province", "PostalCode"},
         base \cup {"PostalCode", "Gender"}}

PipelineFrames(cols) ==
    Frames(cols,
           {Row(prov, zip, gender, premium, claims, 0, cols) :
                prov \in {"X", "Y"}, zip \in {"1000", "2000"},
                gender \in {"F", "M"}, premium \in Premiums, claims \in Claims},
           {1, MinGroupSize}, MaxBlocks - 1)

\* The keys of run_all's mapping, in the order run_all fills it.
RunAllKeys ==
    <<"province_freq", "province_severity", "zip_freq", "zip_severity", "zip_margin",
      "gender_severity">>

\* The i-th hypothesis of ABTester.run_all on frame d: the call and its
\* possible outcomes.
Hypothesis(d, i) ==
    LET zip_col == IF "PostalCode" \in d.cols THEN "PostalCode" ELSE "ZipCode"
    IN  CASE i = 1 -> Called("chi2_frequency_by_group", "Province", "", "", "",
                             chi2_frequency_by_group(d, "Province"))
          [] i = 2 -> Called("anova_severity_by_group", "Province", "AvgClaimSeverity",
                             "", "", anova_severity_by_group(d, "Province"))
          [] i = 3 -> Called("chi2_frequency_by_group", zip_col, "", "", "",
                             chi2_frequency_by_group(d, zip_col))
          [] i = 4 -> Called("anova_severity_by_group", zip_col, "AvgClaimSeverity",
                             "", "", anova_severity_by_group(d, zip_col))
          [] i = 5 -> Called("anova_margin_by_group", zip_col, "Margin", "", "",
                             anova_margin_by_group(d, zip_col))
          [] i = 6 -> Called("ttest_metric_between_groups", "Gender",
                             "AvgClaimSeverity", "F", "M",
                             ttest_metric_between_groups(d, "Gender", "AvgClaimSeverity",
                                                         "F", "M"))

\* The next statement of ABTester.run_all, called from run_pipeline (line
\* 107).  Nothing in run_all or run_pipeline catches an exception: a
\* hypothesis that raises ends both, and run_all's local mapping is lost.
RunAllStep ==
    /\ pc = "ready"
    /\ LET i == Cardinality(DOMAIN results) + 1
       IN  \E o \in Hypothesis(df, i) :
              /\ res' = o
              /\ IF o.raised # ""
                 THEN /\ pc' = "aborted"
                      /\ results' = NoResults
                 ELSE /\ results' = [k \in DOMAIN results \cup {RunAllKeys[i]} |->
                                        IF k = RunAllKeys[i] THEN o.value ELSE results[k]]
                      /\ pc' = IF i = Len(RunAllKeys) THEN "interpret" ELSE "ready"
    /\ UNCHANGED <<src, df, decision, printed, report>>

\* self._interpret_ab_results(results), run_pipeline line 110.
InterpretAB ==
    /\ pc = "interpret"
    /\ printed' = _interpret_ab_results(results, PipelineAlpha)
    /\ pc' = "report"
    /\ UNCHANGED <<src, df, res, decision, results, report>>

\* BusinessReporter(results).generate_markdown(), run_pipeline lines 114-115.
GenerateMarkdown ==
    /\ pc = "report"
    /\ report' = generate_markdown(results, RunAllKeys)
    /\ pc' = IF report'.raised # "" THEN "aborted" ELSE "done"
    /\ UNCHANGED <<src, df, res, decision, results, printed>>

\* Dictionaries without a usable p-value that a caller may hand to
\* interpret_result: a balance_check report (no p_value key) and a result
\* whose p_value is None.
PLessInputs ==
    {[numeric |-> NoResults, categorical |-> NoResults],
     [test |-> "custom", p_value |-> None]}

Alphas == {DefaultAlpha, 10}

\* interpret_result(key, res, alpha) on an entry of the run's results or on
\* a dictionary without a p-value.
InterpretResult ==
    /\ pc = "done"
    /\ \E alpha \in Alphas :
          \/ \E key \in DOMAIN results :
                decision' = [alpha |-> alpha] @@ interpret_result(key, results[key], alpha)
          \/ \E r \in PLessInputs :
                decision' = [alpha |-> alpha] @@ interpret_result("other", r, alpha)
    /\ UNCHANGED <<src, df, pc, res, results, printed, report>>

InitPipeline ==
    /\ \E cols \in PipelineColSets : src \in PipelineFrames(cols)
    /\ df = NoFrame
    /\ pc = "new"
    /\ res = NoOutcome
    /\ decision = NoDecision
    /\ results = NoResults
    /\ printed = NoResults
    /\ report = NoReport

NextPipeline ==
    \/ Construct
    \/ RunAllStep
    \/ InterpretAB
    \/ GenerateMarkdown
    \/ InterpretResult

SpecPipeline == InitPipeline /\ [][NextPipeline]_vars

\* ------------------------------------------------- balance and whole engine

\* The datasets of the balance specification carry every column balance_check
\* and run_all read.  Rows differ in the attribute, in a numeric covariate that
\* may be missing (CustomValueEstimate) and in a categorical covariate
\* (CoverCategory); blocks are of the two lengths around MinBalanceSize.
BalanceCols ==
    {"Province", "PostalCode", "Gender", "TotalPremium", "TotalClaims",
     "CustomValueEstimate", "SumInsured", "CoverCategory", "Bodytype", "LegalType"}

BalanceRow(prov, zip, claims, estimate, cover) ==
    [c \in BalanceCols |->
        CASE c = "Province"            -> prov
          [] c = "PostalCode"          -> zip
          [] c = "Gender"              -> "F"
          [] c = "TotalPremium"        -> 100
          [] c = "TotalClaims"         -> claims
          [] c = "CustomValueEstimate" -> estimate
          [] c = "SumInsured"          -> 1000
          [] c = "CoverCategory"       -> cover
          [] c = "Bodytype"            -> "SUV"
          [] c = "LegalType"           -> "Individual"]

BalanceFrames(maxBlocks) ==
    Frames(BalanceCols,
           {BalanceRow(prov, "1000", 50, estimate, cover) :
                prov \in {"X", "Y"}, estimate \in {NaN, Num(10), Num(20)},
                cover \in {"c1", "c2"}},
           {MinBalanceSize, MinBalanceSize + 1}, maxBlocks)

\* Datasets of the same columns whose rows differ in the attributes and the
\* claims instead, on which run_all can make all six of its calls.
RunAllFrames(maxBlocks) ==
    Frames(BalanceCols,
           {BalanceRow(prov, zip, claims, Num(10), "c1") :
                prov \in {"X", "Y"}, zip \in {"1000", "2000"}, claims \in {50, 100}},
           {MinBalanceSize + 1}, maxBlocks)

\* The calls of balance_check the model makes: two labels present, one
\* label with itself, a label absent and both absent; the default
\* covariates (no list given), named covariates, and a numeric or a
\* categorical covariate that is not a column; an attribute that is not a
\* column.
BalancePairs == {<<"X", "Y">>, <<"X", "X">>, <<"X", "Z">>, <<"Z", "W">>}
BalanceCovariates ==
    {<< << >>, << >> >>,
     << <<"CustomValueEstimate">>, <<"CoverCategory">> >>,
     << <<"Bonus", "TotalPremium">>, <<"CoverCategory">> >>,
     << <<"TotalPremium">>, <<"Trim">> >>}
BalanceArgs ==
    {<<"Province", ab[1], ab[2], cv[1], cv[2]>> : ab \in BalancePairs, cv \in BalanceCovariates}
    \cup {<<"Region", "X", "Y", << >>, << >> >>}

\* The call of balance_check beside each of its outcomes; num and cat are
\* the covariate lists the call compares.
CalledBalance(t, outs) ==
    {[op |-> [name |-> "balance_check", col |-> t[1], metric |-> "", a |-> t[2],
              b |-> t[3],
              num |-> OrDefault(t[4], DefaultCovariatesNum),
              cat |-> OrDefault(t[5], DefaultCovariatesCat)],
      raised |-> o.raised, value |-> o.value, call |-> o.call] : o \in outs}

\* tester.balance_check(col, a, b, covariates_num, covariates_cat)
BalanceCheck ==
    /\ pc = "ready"
    /\ \E t \in BalanceArgs :
          res' \in CalledBalance(t, balance_check(df, t[1], t[2], t[3], t[4], t[5]))
    /\ pc' = "returned"
    /\ UNCHANGED <<src, df, decision, results, printed, report>>

InitBalance ==
    /\ src \in BalanceFrames(MaxBlocks)
    /\ df = NoFrame
    /\ pc = "new"
    /\ res = NoOutcome
    /\ decision = NoDecision
    /\ results = NoResults
    /\ printed = NoResults
    /\ report = NoReport

NextBalance ==
    \/ Construct
    \/ BalanceCheck
    \/ DropResult

SpecBalance == InitBalance /\ [][NextBalance]_vars

\* Every test operation of the engine on one tester: the single calls, in
\* any order, and run_all, whose six calls are not interleaved with others.
\* run_all makes six calls per dataset, so these datasets are one block
\* shorter.
InitEngine ==
    /\ \/ src \in BalanceFrames(MaxBlocks - 1)
       \/ src \in RunAllFrames(MaxBlocks - 1)
    /\ df = NoFrame
    /\ pc = "new"
    /\ res = NoOutcome
    /\ decision = NoDecision
    /\ results = NoResults
    /\ printed = NoResults
    /\ report = NoReport

NextEngine ==
    \/ Construct
    \/ results = NoResults /\ Chi2Frequency
    \/ results = NoResults /\ AnovaSeverity
    \/ results = NoResults /\ AnovaMargin
    \/ results = NoResults /\ TTest
    \/ results = NoResults /\ ZTest
    \/ results = NoResults /\ BalanceCheck
    \/ res = NoOutcome /\ RunAllStep
    \/ results # NoResults /\ RunAllStep
    \/ DropResult

SpecEngine == InitEngine /\ [][NextEngine]_vars

\* ------------------------------------------------------------ the claims

\* The last operation returned a result (it did not raise).
ReturnedResult == res.op.name # "" /\ res.raised = ""

\* Records of df whose attribute col is label and whose metric is not null.
NonNullCount(col, label, metric) ==
    CountRows(df, {i \in WithLabel(df, col, label) :
                     AsFloat(df.blocks[i].row, metric) # NaN})

\* Records of df whose attribute col is label.
GroupCount(col, label) == CountRows(df, WithLabel(df, col, label))

GroupOps == {"anova_severity_by_group", "anova_margin_by_group"}

\* Some group of the attribute has fewer than MinGroupSize non-null values
\* of the metric of the last multi-group test.
SomeGroupSmall ==
    \E l \in Labels(df, res.op.col) :
        NonNullCount(res.op.col, l, res.op.metric) < MinGroupSize

\* C1: a multi-group severity or margin test runs Kruskal-Wallis if some
\* group has fewer than 20 non-null values of the metric and one-way ANOVA
\* otherwise, and the test kind of the result names the test that was run.
C1_TestSelection ==
    (res.op.name \in GroupOps /\ res.call.fn # "") =>
        /\ res.call.fn = (IF SomeGroupSmall THEN "kruskal" ELSE "f_oneway")
        /\ res.raised = "" =>
             res.value.test =
                (IF res.call.fn = "kruskal" THEN "kruskal_" ELSE "anova_")
                \o (IF res.op.name = "anova_severity_by_group" THEN "severity"
                    ELSE "margin")

\* C1's case: the rank-based test was chosen because of one small group
\* beside a group that reaches the threshold.
C1_Witness ==
    /\ res.op.name = "anova_severity_by_group"
    /\ ReturnedResult
    /\ res.value.test = "kruskal_severity"
    /\ \E l1, l2 \in Labels(df, res.op.col) :
          /\ NonNullCount(res.op.col, l1, "AvgClaimSeverity") >= MinGroupSize
          /\ NonNullCount(res.op.col, l2, "AvgClaimSeverity") \in 1..(MinGroupSize - 1)

\* C2: a group with no non-null value of the metric is never among the
\* samples handed to the statistical test.
C2_EmptyGroupNeverPassed ==
    (res.op.name \in GroupOps /\ res.call.fn # "") =>
        \A l \in DOMAIN res.call.sizes : res.call.sizes[l] > 0

\* C3: after construction every record has a null AvgClaimSeverity exactly
\* when its ClaimCount is 0.
C3_SeverityNullIffNoCount ==
    pc # "new" =>
        \A i \in 1..Len(df.blocks) :
            IsNull(df.blocks[i].row["AvgClaimSeverity"])
                <=> df.blocks[i].row["ClaimCount"] = 0

\* C3's case: a dataset that supplies ClaimCount, with a record that has
\* claims but count 0 and a record with count above 1.
C3_Witness ==
    /\ pc = "ready"
    /\ "ClaimCount" \in src.cols
    /\ \E i, j \in 1..Len(df.blocks) :
          /\ df.blocks[i].row["ClaimCount"] = 0
          /\ df.blocks[i].row["TotalClaims"] > 0
          /\ df.blocks[j].row["ClaimCount"] > 1
          /\ df.blocks[j].row["AvgClaimSeverity"] # NaN

\* The last operation returned a frequency table for an attribute with at
\* least two groups.
FrequencyTable ==
    /\ res.op.name = "chi2_frequency_by_group"
    /\ ReturnedResult
    /\ Cardinality(Labels(df, res.op.col)) >= 2

TableTotal(ct) == SumOver(RowSums(ct), DOMAIN ct)

\* C4 as stated: each row sum of the frequency table is the number of
\* records of that group and the grand total is the number of records of
\* the dataset.
C4_TableTotalsDataset ==
    FrequencyTable =>
        /\ \A l \in DOMAIN res.value.table :
              RowSums(res.value.table)[l] = GroupCount(res.op.col, l)
        /\ TableTotal(res.value.table) = NRows(df)

\* C4 amended: each row sum is the number of records of that group and the
\* grand total is the number of records whose attribute is not missing.
C4_TableTotalsNonNull ==
    FrequencyTable =>
        /\ DOMAIN res.value.table = Labels(df, res.op.col)
        /\ \A l \in DOMAIN res.value.table :
              RowSums(res.value.table)[l] = GroupCount(res.op.col, l)
        /\ TableTotal(res.value.table)
              = NRows(df) - GroupCount(res.op.col, NullLabel)

\* C4's case: a table of two groups, one with a record on each side of the
\* claim flag and one without any claim.
C4_Witness ==
    /\ FrequencyTable
    /\ \E l1, l2 \in DOMAIN res.value.table :
          /\ DOMAIN res.value.table[l1] = {0, 1}
          /\ res.value.table[l1][0] = 1
          /\ res.value.table[l1][1] = 1
          /\ res.value.table[l2][0] > 0
          /\ res.value.table[l2][1] = 0

\* C8: the p_value of every returned result is a finite number or None,
\* never NaN.
C8_PValueNeverNaN ==
    (ReturnedResult /\ "p_value" \in DOMAIN res.value) =>
        res.value.p_value.k \in {"num", "none"}

\* C9: the pooled z-test on a label that selects no rows fails with
\* InsufficientDataError.
C9_ZTestZeroTotal ==
    (/\ res.op.name = "ztest_proportions"
     /\ res.op.col \in df.cols
     /\ (GroupCount(res.op.col, res.op.a) = 0 \/ GroupCount(res.op.col, res.op.b) = 0))
    => res.raised = "InsufficientDataError"

\* C10: the Welch test on a group that is empty once its nulls are dropped
\* fails with InsufficientDataError.
C10_TTestEmptyGroup ==
    (/\ res.op.name = "ttest_metric_between_groups"
     /\ res.op.col \in df.cols
     /\ res.op.metric \in df.cols
     /\ (NonNullCount(res.op.col, res.op.a, res.op.metric) = 0
         \/ NonNullCount(res.op.col, res.op.b, res.op.metric) = 0))
    => res.raised = "InsufficientDataError"

\* A rendered decision rejects the null hypothesis.
IsReject(d) == d = "Reject H0"

\* The three data-quality failures of a hypothesis as the code raises them:
\* a missing column (KeyError) and scipy's refusals of degenerate or
\* insufficient data (ValueError, TypeError).
DataQualityErrors == {"KeyError", "ValueError", "TypeError"}

\* C5: every decision rendered from a result with p-value p is "reject H0"
\* exactly when p < alpha: the rows of the report and the lines printed by
\* the pipeline at 0.05, and interpret_result at its alpha.
C5_DecisionIffBelowAlpha ==
    /\ pc = "done" =>
          \A i \in 1..Len(report.rows) :
              LET key == report.rows[i].name
                  p   == results[key].p_value
              IN  /\ IsReject(report.rows[i].decision) <=> (p.k = "num" /\ p.v < ReporterAlpha)
                  /\ IsReject(printed[key]) <=> (p.k = "num" /\ p.v < PipelineAlpha)
    /\ (decision.value.test # "" /\ decision.value.p_value # None) =>
          (IsReject(decision.value.decision)
              <=> (decision.value.p_value.k = "num"
                   /\ decision.value.p_value.v < decision.alpha))

\* C6: interpreting a result without a p-value fails with
\* MissingStatisticError.
C6_MissingPValueFails ==
    (decision.value.test # "" /\ decision.value.p_value = None) =>
        decision.raised = "MissingStatisticError"

\* C7: a data-quality error raised by one hypothesis of run_all never
\* aborts the run.
C7_DataErrorNeverAborts ==
    ~(pc = "aborted" /\ res.raised \in DataQualityErrors)

\* The negation of a z statistic; the negation of nan is nan.
Negated(z) == [z EXCEPT !.sign = -z.sign]

\* Records of the source dataset with attribute col = label, and those of
\* them with a claim.
SrcTotal(col, label) == CountRows(src, WithLabel(src, col, label))
SrcClaimed(col, label) ==
    CountRows(src, {i \in WithLabel(src, col, label) :
                      src.blocks[i].row["TotalClaims"] > 0})

\* C11: when ztest_proportions(attr, a, b) returns a result, the call with
\* the labels swapped returns a result too, with the negated z statistic
\* and the same p-value (nan stays nan); z is negative exactly when the
\* claim rate of group A is lower than that of group B.
C11_ZTestSymmetry ==
    (res.op.name = "ztest_proportions" /\ res.raised = "") =>
        /\ \A o \in ztest_proportions(df, res.op.col, res.op.b, res.op.a) :
              /\ o.raised = ""
              /\ o.value.z_score = Negated(res.value.z_score)
              /\ o.value.p_value = res.value.p_value
        /\ (res.value.z_score.k = "num" /\ res.value.z_score.sign = -1)
              <=> SrcClaimed(res.op.col, res.op.a) * SrcTotal(res.op.col, res.op.b)
                    < SrcClaimed(res.op.col, res.op.b) * SrcTotal(res.op.col, res.op.a)

\* C11's case: a returned z-test with a negative statistic and a numeric
\* p-value, group A having the lower claim rate.
C11_Witness ==
    /\ res.op.name = "ztest_proportions"
    /\ res.raised = ""
    /\ res.op.a = "X" /\ res.op.b = "Y"
    /\ res.value.z_score.k = "num"
    /\ res.value.z_score.sign = -1
    /\ res.value.p_value = Num(10)
    /\ SrcClaimed("Province", "X") > 0

\* C12: no step of the engine changes the caller's source dataset, and once
\* the enriched dataset is derived no test operation changes it either.
C12_NoMutation ==
    [][src' = src /\ (pc # "new" => df' = df)]_vars

\* C12's case: run_all has made its six calls on a dataset with rows; the
\* source still has its own columns only and the enriched dataset is still
\* the derivation of it.
C12_Witness ==
    /\ pc = "interpret"
    /\ Cardinality(DOMAIN results) = Len(RunAllKeys)
    /\ Len(src.blocks) > 1
    /\ src.cols = BalanceCols
    /\ df = Derive(src)

\* C13: the enriched dataset of a tester built from the enriched dataset of
\* another has the same records, each with the same HadClaim, ClaimCount,
\* AvgClaimSeverity and Margin (a null severity stays null).
C13_DerivationIdempotent ==
    (res.op.name = "ABTester" /\ res.raised = "") =>
        /\ Len(res.value.df.blocks) = Len(df.blocks)
        /\ \A i \in 1..Len(df.blocks) :
              /\ res.value.df.blocks[i].n = df.blocks[i].n
              /\ \A c \in DerivedCols :
                    res.value.df.blocks[i].row[c] = df.blocks[i].row[c]

\* C13's case: a second derivation on a dataset without a source ClaimCount
\* column, from which the first derivation made a record with a severity
\* and a record without.
C13_Witness ==
    /\ res.op.name = "ABTester"
    /\ res.raised = ""
    /\ "ClaimCount" \notin src.cols
    /\ \E i, j \in 1..Len(df.blocks) :
          /\ df.blocks[i].row["AvgClaimSeverity"] = Num(50)
          /\ df.blocks[j].row["AvgClaimSeverity"] = NaN
          /\ res.value.df.blocks[j].row["ClaimCount"] = 0

\* The last operation was balance_check on an attribute of the dataset.
BalanceCalled == res.op.name = "balance_check" /\ res.op.col \in df.cols

\* Rows the two labels of the last call select between them.
RowsSelected ==
    CountRows(df, WithLabel(df, res.op.col, res.op.a)
                  \cup WithLabel(df, res.op.col, res.op.b))

\* The covariates the last balance_check compares.
Covariates ==
    {res.op.num[i] : i \in 1..Len(res.op.num)}
    \cup {res.op.cat[i] : i \in 1..Len(res.op.cat)}

C15_NumericIffMoreThanFive ==
    BalanceCalled =>
        /\ Covariates \subseteq df.cols => res.raised = ""
        /\ res.raised = "" =>
              \A i \in 1..Len(res.op.num) :
                  res.op.num[i] \in DOMAIN res.value.numeric
                      <=> /\ NonNullCount(res.op.col, res.op.a, res.op.num[i]) > 5
                          /\ NonNullCount(res.op.col, res.op.b, res.op.num[i]) > 5

\* C15's case: with the default covariates, group A has exactly 5 non-null
\* estimates among more rows and group B has more than 5; the estimate is
\* left out and the two other numeric covariates are reported.
C15_Witness ==
    /\ BalanceCalled
    /\ res.raised = ""
    /\ res.op.num = DefaultCovariatesNum
    /\ NonNullCount(res.op.col, res.op.a, "CustomValueEstimate") = 5
    /\ GroupCount(res.op.col, res.op.a) > 5
    /\ NonNullCount(res.op.col, res.op.b, "CustomValueEstimate") > 5
    /\ DOMAIN res.value.numeric = {"SumInsured", "TotalPremium"}

\* C16: a report of balance_check for two distinct labels has nothing in its
\* categorical section: no row carries both labels, so no value of group A
\* meets a value of group B in the cross-tabulation.
C16_CategoricalEmpty ==
    (BalanceCalled /\ res.raised = "" /\ res.op.a # res.op.b) =>
        /\ WithLabel(df, res.op.col, res.op.a) \cap WithLabel(df, res.op.col, res.op.b) = {}
        /\ res.value.categorical = NoEntries

\* C16's case: both groups have rows with a cover category, of two
\* categories between them, and enough estimates for the numeric section to
\* report them; the categorical section is empty all the same.
C16_Witness ==
    /\ BalanceCalled
    /\ res.raised = ""
    /\ res.op.a = "X" /\ res.op.b = "Y"
    /\ res.op.cat = <<"CoverCategory">>
    /\ \E i \in WithLabel(df, "Province", "X") : df.blocks[i].row["CoverCategory"] = "c1"
    /\ \E i \in WithLabel(df, "Province", "Y") : df.blocks[i].row["CoverCategory"] = "c2"
    /\ \E i \in WithLabel(df, "Province", "Y") : df.blocks[i].row["CoverCategory"] = "c1"
    /\ DOMAIN res.value.numeric = {"CustomValueEstimate"}
    /\ res.value.categorical = NoEntries

====
